---------------------------- MODULE Spec2Model ----------------------------
(***************************************************************************)
(* The asynchronous interaction-event pipeline of godnslog's web server   *)
(* (src/main/webserver.go): RunStoreRoutine draining the event stream,     *)
(* the dnsCallBack tasks with their per-user error counter, the doClean    *)
(* retention runs started by the ticker, Shutdown, and the IsDuplicate     *)
(* error classifier.                                                       *)
(***************************************************************************)
EXTENDS Integers, Sequences, FiniteSets, TLC

\* ---------------------------------------------------------------- bounds
\* Events the event source delivers on c.Output() in one run.
MaxEvents == 2
\* Ticks of the 1800 s ticker taken by the select loop in one run.
MaxTicks == 1
\* Largest value of the wall clock (seconds, scaled).
MaxClock == 2
\* Rows the `record` handler adds to TblHttp in one run.
MaxHttp == 1
\* Rows TblDns holds at start-up.
MaxRows == 2

\* ------------------------------------------------------ program constants
DefaultMaxCallbackErrorCount == 5
\* sqlite3.ErrConstraint, the code IsDuplicate compares e.Code with.
ErrConstraint == 19

VARIABLES
    clock,        \* time.Now(), in seconds
    output,       \* every event sent on c.Output() so far, in delivery order
    taken,        \* how many of them the select loop has received
    outputClosed, \* the event source has closed c.Output()
    cache,        \* the key/value store: key -> [exist, v]
    tblDns,       \* rows of models.TblDns, in insertion order
    tblHttp,      \* rows of models.TblHttp, in insertion order
    inserted,     \* history: the rows RunStoreRoutine's InsertOne stored
    rpc,          \* position of RunStoreRoutine
    rcd,          \* the event RunStoreRoutine is handling
    ticks,        \* ticks of ticker.C received so far
    cleaners,     \* the doClean goroutines started so far
    callbacks,    \* the dnsCallBack goroutines in flight, per user and phase
    streak,       \* history: failed callbacks per user since the key was absent
    wg,           \* self.wg, the WaitGroup counter
    storeQuit,    \* close(self.storeQuit) has run
    spc,          \* position of Shutdown
    listener,     \* self.s: "none" while nil, then the http server's state
    ormClosed,    \* self.orm.Close() has run
    exited,       \* the process has ended: logrus.Fatalf, or a panic
    driver,       \* self.orm.DriverName()
    err,          \* the argument of an IsDuplicate call
    ret,          \* what that call gave back
    sessions,     \* the xorm sessions: the goroutine that opened it -> [st, users]
    handlers      \* requests on /log/ that `record` has accepted and not yet answered

vars == <<clock, output, taken, outputClosed, cache, tblDns, tblHttp, inserted,
          rpc, rcd, ticks, cleaners, callbacks, streak, wg, storeQuit, spc,
          listener, ormClosed, exited, driver, err, ret, sessions, handlers>>

pipelineVars == <<clock, output, taken, outputClosed, cache, tblDns, tblHttp,
                  inserted, rpc, rcd, ticks, cleaners, callbacks, streak, wg,
                  storeQuit, spc, listener, ormClosed, exited, sessions,
                  handlers>>

\* ------------------------------------------------------------ data model
\* The ids of the rows of models.TblUser, as Find returns them.
tblUser == <<1, 2>>

UserIds == {tblUser[i] : i \in 1..Len(tblUser)}

\* The two kinds of record the stream carries (*DnsRecord, *HttpRecord).
DnsRecord(uid, cb, t, n) ==
    [type |-> "DnsRecord", Uid |-> uid, Callback |-> cb, Ctime |-> t, Domain |-> n]

HttpRecord(uid, cb, t, n) ==
    [type |-> "HttpRecord", Uid |-> uid, Callback |-> cb, Ctime |-> t, Domain |-> n]

NoRecord == [type |-> "none", Uid |-> 0, Callback |-> "", Ctime |-> 0, Domain |-> 0]

\* A row of TblDns / TblHttp: the columns the pipeline reads or writes.
Row(uid, t, n) == [Uid |-> uid, Ctime |-> t, Domain |-> n]

\* ------------------------------------------------------- key/value store
\* fmt.Sprintf("%v.errcount", uid)
errorCountKey(uid) == ToString(uid) \o ".errcount"

\* fmt.Sprintf("id.user", id): the format has no verb, so fmt appends the
\* unused argument as %!(EXTRA int64=<id>).
userKey(id) == "id.user" \o "%!(EXTRA int64=" \o ToString(id) \o ")"

Keys == {errorCountKey(u) : u \in UserIds} \cup {userKey(u) : u \in UserIds}

Absent == [exist |-> FALSE, v |-> 0]

Present(x) == [exist |-> TRUE, v |-> x]

\* cache.Get(key): the value and whether the key exists.
Get(c, key) == c[key]

\* cache.Delete(key)
Delete(c, key) == [c EXCEPT ![key] = Absent]

\* cache.IncrementInt64(key, n): an atomic add; an absent counter counts as 0.
IncrementInt64(c, key, n) == [c EXCEPT ![key] = Present(c[key].v + n)]

\* The store at start-up, with user 2's failure counter e2 and user 1's cached
\* profile p1; user 1 has no failure counter and user 2 a cached profile.
InitCache(e2, p1) ==
    [k \in Keys |->
        IF k = errorCountKey(2) THEN e2
        ELSE IF k = userKey(1) THEN p1
        ELSE IF k = userKey(2) THEN Present(2)
        ELSE Absent]

\* --------------------------------------------------------------- time
\* time.Now(): an instant and the location it is shown in.
Now == [sec |-> clock, loc |-> "Local"]

\* Time.Local(): the same instant, shown in local time.
Local(t) == [t EXCEPT !.loc = "Local"]

\* Time.Add(d)
Add(t, d) == [t EXCEPT !.sec = t.sec + d]

NoTime == [sec |-> 0, loc |-> "Local"]

\* ------------------------------------------------------ goroutine records
\* A dnsCallBack goroutine is about to call client.Do with the request
\* NewRequest built ("do") or with the nil request NewRequest gave for a URL
\* it could not parse ("nil"), past client.Do without or with an error ("ok",
\* "err"), or past its update of the counter ("ret"), with the deferred
\* wg.Done() still to run. "panic" counts the goroutines that ended in a
\* panic.
Phases == {"do", "nil", "ok", "err", "ret", "panic"}

NoCallbacks == [u \in UserIds |-> [p \in Phases |-> 0]]

\* A doClean goroutine: where it is, the ids still to visit, its `now` and
\* the cutoff `t` of the user it is at.
Cleaner(pc, ids, now, t) == [pc |-> pc, ids |-> ids, now |-> now, t |-> t]

\* ------------------------------------------------------------- sessions
\* The goroutines that open a session: 0 is RunStoreRoutine, i the i-th doClean.
Goroutines == 0..MaxTicks

NoSession == [st |-> "none", users |-> {}]

\* session := self.orm.NewSession(), by goroutine g.
NewSession(ss, g) == [ss EXCEPT ![g] = [st |-> "open", users |-> {}]]

\* Goroutine g runs a statement on the session that goroutine k opened.
Exec(ss, k, g) == [ss EXCEPT ![k].users = @ \cup {g}]

\* defer session.Close().
CloseSession(ss, k) == [ss EXCEPT ![k].st = "closed"]

\* ----------------------------------------------------------------- Init
\* NewWebServer has returned and RunStoreRoutine stands at its select.
InitPipeline ==
    /\ clock = 0
    /\ sessions = NewSession([g \in Goroutines |-> NoSession], 0)
    /\ output = <<>>
    /\ taken = 0
    /\ outputClosed = FALSE
    /\ inserted = <<>>
    /\ rpc = "select"
    /\ rcd = NoRecord
    /\ ticks = 0
    /\ cleaners = <<>>
    /\ callbacks = NoCallbacks
    /\ streak = [u \in UserIds |-> IF cache[errorCountKey(u)].exist THEN -1 ELSE 0]
    /\ wg = 0
    /\ storeQuit = FALSE
    /\ spc = "idle"
    /\ ormClosed = FALSE
    /\ exited = FALSE

\* The pipeline starts on an empty database; user 1 has no failure counter
\* and user 2's stands one below the cap. Run has not yet stored the http
\* server in self.s.
Init ==
    /\ cache = InitCache(Present(DefaultMaxCallbackErrorCount - 1), Present(1))
    /\ InitPipeline
    /\ listener = "none"
    /\ handlers = 0
    /\ tblDns = <<>>
    /\ tblHttp = <<>>
    /\ driver = "sqlite3"
    /\ err = [type |-> "nil", n |-> 0]
    /\ ret = "none"

\* ------------------------------------------------------ the environment
\* The wall clock advances.
TimePasses ==
    /\ ~exited
    /\ clock < MaxClock
    /\ clock' = clock + 1
    /\ UNCHANGED <<output, taken, outputClosed, cache, tblDns, tblHttp,
                   inserted, rpc, rcd, ticks, cleaners, callbacks, streak, wg,
                   storeQuit, spc, listener, ormClosed, exited, driver, err,
                   ret, sessions, handlers>>

\* The event source sends one record on c.Output().
Send(r) ==
    /\ ~exited
    /\ ~outputClosed
    /\ Len(output) < MaxEvents
    /\ output' = Append(output, r)
    /\ UNCHANGED <<clock, taken, outputClosed, cache, tblDns, tblHttp,
                   inserted, rpc, rcd, ticks, cleaners, callbacks, streak, wg,
                   storeQuit, spc, listener, ormClosed, exited, driver, err,
                   ret, sessions, handlers>>

\* Callback strings that url.Parse rejects (":" has no protocol scheme):
\* retryablehttp.NewRequest returns a nil request and an error for them.
Unparsable == {":"}

\* The (Uid, Callback) pairs of the DNS events sent: with and without a
\* callback URL, with one that does not parse, owned by a user or by none.
DnsEvents ==
    {<<1, "http://cb">>, <<1, "">>, <<0, "http://cb">>, <<2, "http://cb">>,
     <<1, ":">>}

SendDns ==
    \E e \in DnsEvents :
        Send(DnsRecord(e[1], e[2], clock, Len(output) + 1))

SendHttp ==
    Send(HttpRecord(1, "http://cb", clock, Len(output) + 1))

\* The (Uid, Callback) pairs of HTTP events: every owner, with and without a
\* callback URL.
HttpEvents == (UserIds \cup {0}) \X {"http://cb", ""}

SendAnyHttp ==
    \E e \in HttpEvents :
        Send(HttpRecord(e[1], e[2], clock, Len(output) + 1))

\* The event source closes c.Output(): no further event will arrive.
CloseOutput ==
    /\ ~exited
    /\ ~outputClosed
    /\ outputClosed' = TRUE
    /\ UNCHANGED <<clock, output, taken, cache, tblDns, tblHttp, inserted, rpc,
                   rcd, ticks, cleaners, callbacks, streak, wg, storeQuit, spc,
                   listener, ormClosed, exited, driver, err, ret, sessions,
                   handlers>>

\* r.Any("/log/*any", self.record): the server hands a request to `record`.
recordAccept ==
    /\ ~exited
    /\ listener = "serving"
    /\ handlers + Len(tblHttp) < MaxHttp
    /\ handlers' = handlers + 1
    /\ UNCHANGED <<clock, output, taken, outputClosed, cache, tblDns, tblHttp,
                   inserted, rpc, rcd, ticks, cleaners, callbacks, streak, wg,
                   storeQuit, spc, listener, ormClosed, exited, driver, err,
                   ret, sessions>>

\* The `record` handler stores the HTTP interaction in TblHttp itself and
\* answers; on a closed engine its insert fails.
record ==
    /\ ~exited
    /\ handlers > 0
    /\ handlers' = handlers - 1
    /\ IF ormClosed
         THEN tblHttp' = tblHttp
         ELSE \E uid \in UserIds :
                tblHttp' = Append(tblHttp, Row(uid, clock, Len(tblHttp) + 1))
    /\ UNCHANGED <<clock, output, taken, outputClosed, cache, tblDns, inserted,
                   rpc, rcd, ticks, cleaners, callbacks, streak, wg, storeQuit,
                   spc, listener, ormClosed, exited, driver, err, ret,
                   sessions>>

\* ------------------------------------------------------------------ Run
\* Run: the routes, net.Listen, self.s = s, s.Serve(l). While Run has not
\* reached the assignment (not called, still setting up, or returned on a
\* failed net.Listen) self.s is nil.
Run ==
    /\ ~exited
    /\ listener = "none"
    /\ listener' = "serving"
    /\ UNCHANGED <<clock, output, taken, outputClosed, cache, tblDns, tblHttp,
                   inserted, rpc, rcd, ticks, cleaners, callbacks, streak, wg,
                   storeQuit, spc, ormClosed, exited, driver, err, ret,
                   sessions, handlers>>

\* ------------------------------------------------------ RunStoreRoutine
\* The ticker watched by a goroutine of its own instead of the select of the
\* store loop: a tick starts doClean wherever the loop stands.
SelectTicker_OwnGoroutine ==
    /\ ~exited
    /\ ticks < MaxTicks
    /\ ticks' = ticks + 1
    /\ wg' = wg + 1
    /\ cleaners' = Append(cleaners, Cleaner("find", <<>>, NoTime, NoTime))
    /\ UNCHANGED <<clock, output, taken, outputClosed, cache, tblDns, tblHttp,
                   inserted, rpc, rcd, callbacks, streak, storeQuit, spc,
                   listener, ormClosed, exited, driver, err, ret, sessions,
                   handlers>>

\* case <-ticker.C: wg.Add(1) and start a goroutine that runs doClean.
SelectTicker ==
    /\ ~exited
    /\ rpc = "select"
    /\ ticks < MaxTicks
    /\ ticks' = ticks + 1
    /\ wg' = wg + 1
    /\ cleaners' = Append(cleaners, Cleaner("find", <<>>, NoTime, NoTime))
    /\ UNCHANGED <<clock, output, taken, outputClosed, cache, tblDns, tblHttp,
                   inserted, rpc, rcd, callbacks, streak, storeQuit, spc,
                   listener, ormClosed, exited, driver, err, ret, sessions,
                   handlers>>

\* SelectOutput with the *HttpRecord case handled as the *DnsRecord case is.
SelectOutput_HttpAsDns ==
    /\ ~exited
    /\ rpc = "select"
    /\ taken < Len(output)
    /\ taken' = taken + 1
    /\ rcd' = output[taken + 1]
    /\ rpc' = "insert"
    /\ UNCHANGED <<clock, output, outputClosed, cache, tblDns, tblHttp,
                   inserted, ticks, cleaners, callbacks, streak, wg, storeQuit,
                   spc, listener, ormClosed, exited, driver, err, ret,
                   sessions, handlers>>

\* SelectOutput receiving the newest record of the stream instead of the oldest.
SelectOutput_Newest ==
    /\ ~exited
    /\ rpc = "select"
    /\ taken < Len(output)
    /\ taken' = taken + 1
    /\ IF output[Len(output)].type = "DnsRecord"
         THEN rcd' = output[Len(output)] /\ rpc' = "insert"
         ELSE rcd' = NoRecord /\ rpc' = "select"
    /\ UNCHANGED <<clock, output, outputClosed, cache, tblDns, tblHttp,
                   inserted, ticks, cleaners, callbacks, streak, wg, storeQuit,
                   spc, listener, ormClosed, exited, driver, err, ret,
                   sessions, handlers>>

\* case rcd, ok := <-c.Output() with ok: the type switch takes a *DnsRecord to
\* the insert; the *HttpRecord case has no statement.
SelectOutput ==
    /\ ~exited
    /\ rpc = "select"
    /\ taken < Len(output)
    /\ taken' = taken + 1
    /\ IF output[taken + 1].type = "DnsRecord"
         THEN rcd' = output[taken + 1] /\ rpc' = "insert"
         ELSE rcd' = NoRecord /\ rpc' = "select"
    /\ UNCHANGED <<clock, output, outputClosed, cache, tblDns, tblHttp,
                   inserted, ticks, cleaners, callbacks, streak, wg, storeQuit,
                   spc, listener, ormClosed, exited, driver, err, ret,
                   sessions, handlers>>

\* SelectClosed taking the close of the stream for its end while records
\* sent before the close are still waiting.
SelectClosed_NotDrained ==
    /\ ~exited
    /\ rpc = "select"
    /\ outputClosed
    /\ rpc' = "done"
    /\ storeQuit' = TRUE
    /\ sessions' = CloseSession(sessions, 0)
    /\ UNCHANGED <<clock, output, taken, outputClosed, cache, tblDns, tblHttp,
                   inserted, rcd, ticks, cleaners, callbacks, streak, wg, spc,
                   listener, ormClosed, exited, driver, err, ret, handlers>>

\* case rcd, ok := <-c.Output() with !ok: break FOR_LOOP, close(self.storeQuit),
\* and the deferred session.Close(). A closed channel is received from only
\* after every record sent before the close.
SelectClosed ==
    /\ ~exited
    /\ rpc = "select"
    /\ taken = Len(output)
    /\ outputClosed
    /\ rpc' = "done"
    /\ storeQuit' = TRUE
    /\ sessions' = CloseSession(sessions, 0)
    /\ UNCHANGED <<clock, output, taken, outputClosed, cache, tblDns, tblHttp,
                   inserted, rcd, ticks, cleaners, callbacks, streak, wg, spc,
                   listener, ormClosed, exited, driver, err, ret, handlers>>

\* if d.Callback != "" && d.Uid > 0
WantsCallback(d) == d.Callback # "" /\ d.Uid > 0

\* The failed insert logged with Errorf instead of Fatalf: the case goes on to
\* the callback test.
InsertOneFatal_LogOnly ==
    /\ ~exited
    /\ rpc = "insert"
    /\ rpc' = IF WantsCallback(rcd) THEN "get" ELSE "select"
    /\ rcd' = IF WantsCallback(rcd) THEN rcd ELSE NoRecord
    /\ sessions' = Exec(sessions, 0, 0)
    /\ UNCHANGED <<clock, output, taken, outputClosed, cache, tblDns, tblHttp,
                   inserted, ticks, cleaners, callbacks, streak, wg, storeQuit,
                   spc, listener, ormClosed, exited, driver, err, ret,
                   handlers>>

\* session.InsertOne fails: logrus.Fatalf logs and ends the process.
InsertOneFatal ==
    /\ ~exited
    /\ rpc = "insert"
    /\ exited' = TRUE
    /\ sessions' = Exec(sessions, 0, 0)
    /\ UNCHANGED <<clock, output, taken, outputClosed, cache, tblDns, tblHttp,
                   inserted, rpc, rcd, ticks, cleaners, callbacks, streak, wg,
                   storeQuit, spc, listener, ormClosed, driver, err, ret,
                   handlers>>

\* case *DnsRecord with the insert succeeding: session.InsertOne(&models.TblDns{...}),
\* then the test for a callback URL and an owner. `break` and the end of the
\* case lead back to the select.
DnsRecordCase ==
    /\ ~exited
    /\ rpc = "insert"
    /\ ~ormClosed
    /\ tblDns' = Append(tblDns, Row(rcd.Uid, rcd.Ctime, rcd.Domain))
    /\ inserted' = Append(inserted, Row(rcd.Uid, rcd.Ctime, rcd.Domain))
    /\ rpc' = IF WantsCallback(rcd) THEN "get" ELSE "select"
    /\ rcd' = IF WantsCallback(rcd) THEN rcd ELSE NoRecord
    /\ sessions' = Exec(sessions, 0, 0)
    /\ UNCHANGED <<clock, output, taken, outputClosed, cache, tblHttp, ticks,
                   cleaners, callbacks, streak, wg, storeQuit, spc, listener,
                   ormClosed, exited, driver, err, ret, handlers>>

\* Dispatches without the look at the failure counter.
Dispatches_NoCap(d, c) ==
    /\ d.Callback # ""
    /\ d.Uid > 0

\* Dispatches with `>` for `>=` in the comparison with the cap.
Dispatches_Gt(d, c) ==
    /\ d.Callback # ""
    /\ d.Uid > 0
    /\ LET e == Get(c, errorCountKey(d.Uid))
       IN  ~(e.exist /\ e.v > DefaultMaxCallbackErrorCount)

\* if d.Callback != "" && d.Uid > 0 { ... }: whether the handled record is to
\* get a dnsCallBack goroutine, given the store the counter is read from.
\* `break` leaves the type switch only.
Dispatches(d, c) ==
    /\ d.Callback # ""
    /\ d.Uid > 0
    /\ LET e == Get(c, errorCountKey(d.Uid))
       IN  ~(e.exist /\ e.v >= DefaultMaxCallbackErrorCount)

\* GetErrorCount with a breaker that re-arms: a record skipped at the cap
\* deletes the failure counter, so that the next one is tried again.
GetErrorCount_Rearm ==
    /\ ~exited
    /\ rpc = "get"
    /\ IF Dispatches(rcd, cache)
         THEN rpc' = "go" /\ rcd' = rcd /\ cache' = cache
         ELSE /\ rpc' = "select"
              /\ rcd' = NoRecord
              /\ cache' = Delete(cache, errorCountKey(rcd.Uid))
    /\ UNCHANGED <<clock, output, taken, outputClosed, tblDns, tblHttp,
                   inserted, ticks, cleaners, callbacks, streak, wg, storeQuit,
                   spc, listener, ormClosed, exited, driver, err, ret,
                   sessions, handlers>>

\* v, exist := c.Get(errorCountKey) and the comparison with the cap: at or
\* above it the case ends, else the loop goes on to start the callback.
GetErrorCount ==
    /\ ~exited
    /\ rpc = "get"
    /\ IF Dispatches(rcd, cache)
         THEN rpc' = "go" /\ rcd' = rcd
         ELSE rpc' = "select" /\ rcd' = NoRecord
    /\ UNCHANGED <<clock, output, taken, outputClosed, cache, tblDns, tblHttp,
                   inserted, ticks, cleaners, callbacks, streak, wg, storeQuit,
                   spc, listener, ormClosed, exited, driver, err, ret,
                   sessions, handlers>>

\* req, err := retryablehttp.NewRequest("POST", rcd.Callback, nil): the phase
\* in which a dnsCallBack goroutine for a callback URL comes to client.Do.
NewRequest(cb) == IF cb \in Unparsable THEN "nil" ELSE "do"

\* self.wg.Add(1); go dnsCallBack(d). The goroutine builds its request from
\* the record alone and stands before client.Do.
GoDnsCallBack ==
    /\ ~exited
    /\ rpc = "go"
    /\ wg' = wg + 1
    /\ callbacks' = [callbacks EXCEPT ![rcd.Uid][NewRequest(rcd.Callback)] = @ + 1]
    /\ rpc' = "select"
    /\ rcd' = NoRecord
    /\ UNCHANGED <<clock, output, taken, outputClosed, cache, tblDns, tblHttp,
                   inserted, ticks, cleaners, streak, storeQuit, spc, listener,
                   ormClosed, exited, driver, err, ret, sessions, handlers>>

\* ---------------------------------------------------------- dnsCallBack
\* resp, err := client.Do(req): the retrying POST ends with or without error.
\* The error of NewRequest is never looked at: on a nil req client.Do
\* dereferences it and panics, the deferred wg.Done() runs and the process
\* ends.
clientDo(u) ==
    /\ ~exited
    /\ \/ /\ callbacks[u]["do"] > 0
          /\ \E p \in {"ok", "err"} :
                callbacks' = [callbacks EXCEPT ![u]["do"] = @ - 1, ![u][p] = @ + 1]
          /\ wg' = wg
          /\ exited' = exited
       \/ /\ callbacks[u]["nil"] > 0
          /\ callbacks' = [callbacks EXCEPT ![u]["nil"] = @ - 1,
                                            ![u]["panic"] = @ + 1]
          /\ wg' = wg - 1
          /\ exited' = TRUE
    /\ UNCHANGED <<clock, output, taken, outputClosed, cache, tblDns, tblHttp,
                   inserted, rpc, rcd, ticks, cleaners, streak, storeQuit, spc,
                   listener, ormClosed, driver, err, ret, sessions, handlers>>

\* dnsCallBackErr with wg.Done() after the body instead of deferred: the early
\* return on the error skips it.
dnsCallBackErr_NoDone(u) ==
    /\ ~exited
    /\ callbacks[u]["err"] > 0
    /\ cache' = IncrementInt64(cache, errorCountKey(u), 1)
    /\ callbacks' = [callbacks EXCEPT ![u]["err"] = @ - 1]
    /\ streak' = [streak EXCEPT ![u] = IF @ >= 0 THEN @ + 1 ELSE @]
    /\ UNCHANGED <<clock, output, taken, outputClosed, tblDns, tblHttp,
                   inserted, rpc, rcd, ticks, cleaners, wg, storeQuit, spc,
                   listener, ormClosed, exited, driver, err, ret, sessions,
                   handlers>>

\* dnsCallBackErr returning on the error without touching the counter.
dnsCallBackErr_NoIncrement(u) ==
    /\ ~exited
    /\ callbacks[u]["err"] > 0
    /\ callbacks' = [callbacks EXCEPT ![u]["err"] = @ - 1, ![u]["ret"] = @ + 1]
    /\ streak' = [streak EXCEPT ![u] = IF @ >= 0 THEN @ + 1 ELSE @]
    /\ UNCHANGED <<clock, output, taken, outputClosed, cache, tblDns, tblHttp,
                   inserted, rpc, rcd, ticks, cleaners, wg, storeQuit, spc,
                   listener, ormClosed, exited, driver, err, ret, sessions,
                   handlers>>

\* err != nil: c.IncrementInt64(errorCountKey, 1); the log line and the
\* return follow.
dnsCallBackErr(u) ==
    /\ ~exited
    /\ callbacks[u]["err"] > 0
    /\ cache' = IncrementInt64(cache, errorCountKey(u), 1)
    /\ callbacks' = [callbacks EXCEPT ![u]["err"] = @ - 1, ![u]["ret"] = @ + 1]
    /\ streak' = [streak EXCEPT ![u] = IF @ >= 0 THEN @ + 1 ELSE @]
    /\ UNCHANGED <<clock, output, taken, outputClosed, tblDns, tblHttp,
                   inserted, rpc, rcd, ticks, cleaners, wg, storeQuit, spc,
                   listener, ormClosed, exited, driver, err, ret, sessions,
                   handlers>>

\* dnsCallBackOk clearing the counter only while it is below the cap.
dnsCallBackOk_BelowCap(u) ==
    /\ ~exited
    /\ callbacks[u]["ok"] > 0
    /\ cache' = IF cache[errorCountKey(u)].v < DefaultMaxCallbackErrorCount
                  THEN Delete(cache, errorCountKey(u))
                  ELSE cache
    /\ callbacks' = [callbacks EXCEPT ![u]["ok"] = @ - 1, ![u]["ret"] = @ + 1]
    /\ streak' = [streak EXCEPT ![u] = 0]
    /\ UNCHANGED <<clock, output, taken, outputClosed, tblDns, tblHttp,
                   inserted, rpc, rcd, ticks, cleaners, wg, storeQuit, spc,
                   listener, ormClosed, exited, driver, err, ret, sessions,
                   handlers>>

\* err == nil: c.Delete(errorCountKey); the body is still to be drained and
\* closed.
dnsCallBackOk(u) ==
    /\ ~exited
    /\ callbacks[u]["ok"] > 0
    /\ cache' = Delete(cache, errorCountKey(u))
    /\ callbacks' = [callbacks EXCEPT ![u]["ok"] = @ - 1, ![u]["ret"] = @ + 1]
    /\ streak' = [streak EXCEPT ![u] = 0]
    /\ UNCHANGED <<clock, output, taken, outputClosed, tblDns, tblHttp,
                   inserted, rpc, rcd, ticks, cleaners, wg, storeQuit, spc,
                   listener, ormClosed, exited, driver, err, ret, sessions,
                   handlers>>

\* The end of dnsCallBack on either path (after the log line, or after
\* io.Copy and resp.Body.Close()): the deferred self.wg.Done().
dnsCallBackDone(u) ==
    /\ ~exited
    /\ callbacks[u]["ret"] > 0
    /\ callbacks' = [callbacks EXCEPT ![u]["ret"] = @ - 1]
    /\ wg' = wg - 1
    /\ UNCHANGED <<clock, output, taken, outputClosed, cache, tblDns, tblHttp,
                   inserted, rpc, rcd, ticks, cleaners, streak, storeQuit, spc,
                   listener, ormClosed, exited, driver, err, ret, sessions,
                   handlers>>

\* -------------------------------------------------------------- doClean
\* DeleteWhere with `ctime<=?` for `ctime<?`.
DeleteWhere_Le(tbl, id, t) ==
    SelectSeq(tbl, LAMBDA r : ~(r.Uid = id /\ r.Ctime <= t.sec))

\* session.Where(`uid=?`, id).And(`ctime<?`, t).Delete(...): the rows left.
DeleteWhere(tbl, id, t) ==
    SelectSeq(tbl, LAMBDA r : ~(r.Uid = id /\ r.Ctime < t.sec))

\* now := time.Now(); if DriverName() == "sqlite" { now = now.Local() }
doCleanNow == IF driver = "sqlite" THEN Local(Now) ELSE Now

\* t := now.Add(time.Duration(-1) * time.Duration(user.CleanInterval) * time.Second)
Cutoff(now, cleanInterval) == Add(now, (-1) * cleanInterval)

\* doClean reading through the session of RunStoreRoutine instead of opening
\* one of its own.
doCleanFind_SharedSession(i) ==
    /\ ~exited
    /\ cleaners[i].pc = "find"
    /\ \E found \in BOOLEAN :
        cleaners' = [cleaners EXCEPT ![i] =
                        IF found /\ ~ormClosed
                          THEN Cleaner("get", tblUser, doCleanNow, NoTime)
                          ELSE Cleaner("ret", <<>>, NoTime, NoTime)]
    /\ sessions' = Exec(sessions, 0, i)
    /\ UNCHANGED <<clock, output, taken, outputClosed, cache, tblDns, tblHttp,
                   inserted, rpc, rcd, ticks, callbacks, streak, wg, storeQuit,
                   spc, listener, ormClosed, exited, driver, err, ret,
                   handlers>>

\* session := self.orm.NewSession(), session.Cols("id").Find(&ids, ...) and the
\* read of the clock. When Find fails (it does on a closed engine) doClean
\* logs the error and returns.
doCleanFind(i) ==
    /\ ~exited
    /\ cleaners[i].pc = "find"
    /\ \E found \in BOOLEAN :
        cleaners' = [cleaners EXCEPT ![i] =
                        IF found /\ ~ormClosed
                          THEN Cleaner("get", tblUser, doCleanNow, NoTime)
                          ELSE Cleaner("ret", <<>>, NoTime, NoTime)]
    /\ sessions' = Exec(NewSession(sessions, i), i, i)
    /\ UNCHANGED <<clock, output, taken, outputClosed, cache, tblDns, tblHttp,
                   inserted, rpc, rcd, ticks, callbacks, streak, wg, storeQuit,
                   spc, listener, ormClosed, exited, driver, err, ret,
                   handlers>>

\* The doClean goroutine after the turn for one id: at the next id, or at
\* its return.
NextId(c) ==
    IF Tail(c.ids) = <<>>
      THEN Cleaner("ret", <<>>, NoTime, NoTime)
      ELSE Cleaner("get", Tail(c.ids), c.now, NoTime)

\* doCleanUser going on to the deletes whether or not the profile is cached:
\* on a miss the interval read is the zero value.
doCleanUser_IgnoreMiss(i) ==
    /\ ~exited
    /\ cleaners[i].pc = "get"
    /\ LET e == Get(cache, userKey(Head(cleaners[i].ids)))
       IN  cleaners' = [cleaners EXCEPT ![i].pc = "delDns",
                                        ![i].t = Cutoff(cleaners[i].now, e.v)]
    /\ UNCHANGED <<clock, output, taken, outputClosed, cache, tblDns, tblHttp,
                   inserted, rpc, rcd, ticks, callbacks, streak, wg, storeQuit,
                   spc, listener, ormClosed, exited, driver, err, ret,
                   sessions, handlers>>

\* for _, id := range ids: userKey, cache.Get(userKey); when the profile is
\* cached, the cutoff t, else on to the next id.
doCleanUser(i) ==
    /\ ~exited
    /\ cleaners[i].pc = "get"
    /\ LET e == Get(cache, userKey(Head(cleaners[i].ids)))
       IN  cleaners' = [cleaners EXCEPT ![i] =
                          IF e.exist
                            THEN [@ EXCEPT !.pc = "delDns",
                                           !.t = Cutoff(cleaners[i].now, e.v)]
                            ELSE NextId(@)]
    /\ UNCHANGED <<clock, output, taken, outputClosed, cache, tblDns, tblHttp,
                   inserted, rpc, rcd, ticks, callbacks, streak, wg, storeQuit,
                   spc, listener, ormClosed, exited, driver, err, ret,
                   sessions, handlers>>

\* session.Where(`uid=?`, id).And(`ctime<?`, t).Delete(&models.TblDns{}); on a
\* closed engine the statement fails and nobody looks at the error.
doCleanDeleteDns(i) ==
    /\ ~exited
    /\ cleaners[i].pc = "delDns"
    /\ tblDns' = IF ormClosed THEN tblDns
                 ELSE DeleteWhere(tblDns, Head(cleaners[i].ids), cleaners[i].t)
    /\ cleaners' = [cleaners EXCEPT ![i].pc = "delHttp"]
    /\ sessions' = Exec(sessions, i, i)
    /\ UNCHANGED <<clock, output, taken, outputClosed, cache, tblHttp,
                   inserted, rpc, rcd, ticks, callbacks, streak, wg, storeQuit,
                   spc, listener, ormClosed, exited, driver, err, ret,
                   handlers>>

\* session.Where(`uid=?`, id).And(`ctime<?`, t).Delete(&models.TblHttp{}), and
\* the end of the turn.
doCleanDeleteHttp(i) ==
    /\ ~exited
    /\ cleaners[i].pc = "delHttp"
    /\ tblHttp' = IF ormClosed THEN tblHttp
                  ELSE DeleteWhere(tblHttp, Head(cleaners[i].ids), cleaners[i].t)
    /\ cleaners' = [cleaners EXCEPT ![i] = NextId(@)]
    /\ sessions' = Exec(sessions, i, i)
    /\ UNCHANGED <<clock, output, taken, outputClosed, cache, tblDns, inserted,
                   rpc, rcd, ticks, callbacks, streak, wg, storeQuit, spc,
                   listener, ormClosed, exited, driver, err, ret, handlers>>

\* doClean returns: the deferred session.Close(), then the deferred
\* self.wg.Done() of the goroutine.
doCleanReturn(i) ==
    /\ ~exited
    /\ cleaners[i].pc = "ret"
    /\ cleaners' = [cleaners EXCEPT ![i].pc = "done"]
    /\ sessions' = CloseSession(sessions, i)
    /\ wg' = wg - 1
    /\ UNCHANGED <<clock, output, taken, outputClosed, cache, tblDns, tblHttp,
                   inserted, rpc, rcd, ticks, callbacks, streak, storeQuit,
                   spc, listener, ormClosed, exited, driver, err, ret,
                   handlers>>

\* ------------------------------------------------------------- Shutdown
\* What Shutdown's read of self.s can give. Run writes the field and Shutdown
\* reads it with nothing ordering the two, so a read after the write may
\* still give nil.
ReadServer == IF listener = "none" THEN {"nil"} ELSE {"nil", "server"}

\* err := self.s.Shutdown(ctx), first half: on a nil self.s the call panics
\* and the process ends; else the server closes its listener.
ShutdownServer ==
    /\ ~exited
    /\ spc = "idle"
    /\ \E s \in ReadServer :
        IF s = "nil"
          THEN spc' = "panic" /\ exited' = TRUE /\ listener' = listener
          ELSE spc' = "drain" /\ exited' = exited /\ listener' = "stopped"
    /\ UNCHANGED <<clock, output, taken, outputClosed, cache, tblDns, tblHttp,
                   inserted, rpc, rcd, ticks, cleaners, callbacks, streak, wg,
                   storeQuit, ormClosed, driver, err, ret, sessions, handlers>>

\* s.Shutdown(ctx), second half: it returns once no `record` handler is
\* running, or with ctx.Err() once the caller's context is done.
ShutdownIdle ==
    /\ ~exited
    /\ spc = "drain"
    /\ \E ctxDone \in BOOLEAN : ctxDone \/ handlers = 0
    /\ spc' = "wait"
    /\ UNCHANGED <<clock, output, taken, outputClosed, cache, tblDns, tblHttp,
                   inserted, rpc, rcd, ticks, cleaners, callbacks, streak, wg,
                   storeQuit, listener, ormClosed, exited, driver, err, ret,
                   sessions, handlers>>

\* ShutdownWait going on without receiving from self.storeQuit.
ShutdownWait_NoReceive ==
    /\ ~exited
    /\ spc = "wait"
    /\ spc' = "close"
    /\ UNCHANGED <<clock, output, taken, outputClosed, cache, tblDns, tblHttp,
                   inserted, rpc, rcd, ticks, cleaners, callbacks, streak, wg,
                   storeQuit, listener, ormClosed, exited, driver, err, ret,
                   sessions, handlers>>

\* <-self.storeQuit: blocks until the channel is closed.
ShutdownWait ==
    /\ ~exited
    /\ spc = "wait"
    /\ storeQuit
    /\ spc' = "close"
    /\ UNCHANGED <<clock, output, taken, outputClosed, cache, tblDns, tblHttp,
                   inserted, rpc, rcd, ticks, cleaners, callbacks, streak, wg,
                   storeQuit, listener, ormClosed, exited, driver, err, ret,
                   sessions, handlers>>

\* Shutdown calling self.wg.Wait() before it closes the engine.
ShutdownClose_WaitGroup ==
    /\ ~exited
    /\ spc = "close"
    /\ wg = 0
    /\ ormClosed' = TRUE
    /\ spc' = "done"
    /\ UNCHANGED <<clock, output, taken, outputClosed, cache, tblDns, tblHttp,
                   inserted, rpc, rcd, ticks, cleaners, callbacks, streak, wg,
                   storeQuit, listener, exited, driver, err, ret, sessions,
                   handlers>>

\* self.orm.Close(); return err
ShutdownClose ==
    /\ ~exited
    /\ spc = "close"
    /\ ormClosed' = TRUE
    /\ spc' = "done"
    /\ UNCHANGED <<clock, output, taken, outputClosed, cache, tblDns, tblHttp,
                   inserted, rpc, rcd, ticks, cleaners, callbacks, streak, wg,
                   storeQuit, listener, exited, driver, err, ret, sessions,
                   handlers>>

\* The store routine: the event source, RunStoreRoutine at its records, and
\* the dnsCallBack goroutines it starts.
Next ==
    \/ SendDns
    \/ SendHttp
    \/ CloseOutput
    \/ SelectOutput
    \/ SelectClosed
    \/ DnsRecordCase
    \/ InsertOneFatal
    \/ GetErrorCount
    \/ GoDnsCallBack
    \/ \E u \in UserIds : clientDo(u)
    \/ \E u \in UserIds : dnsCallBackErr(u)
    \/ \E u \in UserIds : dnsCallBackOk(u)
    \/ \E u \in UserIds : dnsCallBackDone(u)

Spec == Init /\ [][Next]_vars

\* ------------------------------------------------------ the whole server
\* The event source sends a DNS event of user 2 that asks for a callback, at
\* a URL that parses or at one that does not.
SendCallbackDns ==
    \E cb \in {"http://cb"} \cup Unparsable :
        Send(DnsRecord(2, cb, clock, Len(output) + 1))

\* Everything that runs at once: the event source, Run, RunStoreRoutine with
\* its ticker, the dnsCallBack and doClean goroutines, and Shutdown.
ServerNext ==
    \/ SendCallbackDns
    \/ CloseOutput
    \/ Run
    \/ SelectTicker
    \/ SelectOutput
    \/ SelectClosed
    \/ DnsRecordCase
    \/ InsertOneFatal
    \/ GetErrorCount
    \/ GoDnsCallBack
    \/ \E u \in UserIds : clientDo(u)
    \/ \E u \in UserIds : dnsCallBackErr(u)
    \/ \E u \in UserIds : dnsCallBackOk(u)
    \/ \E u \in UserIds : dnsCallBackDone(u)
    \/ \E i \in 1..Len(cleaners) : doCleanFind(i)
    \/ \E i \in 1..Len(cleaners) : doCleanUser(i)
    \/ \E i \in 1..Len(cleaners) : doCleanDeleteDns(i)
    \/ \E i \in 1..Len(cleaners) : doCleanDeleteHttp(i)
    \/ \E i \in 1..Len(cleaners) : doCleanReturn(i)
    \/ ShutdownServer
    \/ ShutdownIdle
    \/ ShutdownWait
    \/ ShutdownClose

ServerSpec == Init /\ [][ServerNext]_vars

\* ------------------------------------------------- retention, with data
\* The rows a table may hold at start-up, left by earlier runs.
OldRows == {Row(u, t, 0) : u \in UserIds, t \in 0..1}

\* Number the rows of a table, as the primary key does.
Numbered(tbl) == [i \in 1..Len(tbl) |-> [tbl[i] EXCEPT !.Domain = i]]

\* The tables at start-up: MaxRows rows in the order they were inserted,
\* which is the order of their ctime.
InitTables ==
    {Numbered(q) : q \in
        {s \in [1..MaxRows -> OldRows] :
            \A i \in 1..(Len(s) - 1) : s[i].Ctime <= s[i + 1].Ctime}}

\* A server that has run for a while: rows in TblDns, Run serving with
\* MaxHttp requests of /log/ accepted and their handlers yet to store them, no
\* failure counter, user 2's profile cached and user 1's cached as p1.
CleanInitWith(p1) ==
    /\ cache = InitCache(Absent, p1)
    /\ InitPipeline
    /\ listener = "serving"
    /\ handlers = MaxHttp
    /\ tblDns \in InitTables
    /\ tblHttp = <<>>
    /\ driver = "sqlite3"
    /\ err = [type |-> "nil", n |-> 0]
    /\ ret = "none"

\* The retention runs on a database that holds rows, with Run serving, while
\* time passes and the `record` handlers store HTTP interactions; every tick
\* starts a doClean goroutine of its own, whatever the earlier ones do.
CleanNext ==
    \/ TimePasses
    \/ record
    \/ SelectTicker
    \/ \E i \in 1..Len(cleaners) : doCleanFind(i)
    \/ \E i \in 1..Len(cleaners) : doCleanUser(i)
    \/ \E i \in 1..Len(cleaners) : doCleanDeleteDns(i)
    \/ \E i \in 1..Len(cleaners) : doCleanDeleteHttp(i)
    \/ \E i \in 1..Len(cleaners) : doCleanReturn(i)

\* Every user's profile is cached.
CleanInit == CleanInitWith(Present(1))

CleanSpec == CleanInit /\ [][CleanNext]_vars

\* User 1's profile is not cached.
MissInit == CleanInitWith(Absent)

MissSpec == MissInit /\ [][CleanNext]_vars

\* ---------------------------------------------------------- IsDuplicate
\* The values of orm.DriverName() tried: the two drivers the file imports,
\* the name doClean compares with, and a backend IsDuplicate does not know.
Drivers == {"sqlite3", "mysql", "sqlite", "postgres"}

\* MySQLError.Number values tried: the three duplicate-key numbers, their
\* neighbours, and numbers that mean something else.
MySQLNumbers == {1062, 1169, 1022, 1234, 1061, 1063, 1168, 1170, 1021, 1023, 0, 19}

\* sqlite3.Error.Code values tried.
SqliteCodes == {19, 0, 1, 5, 18, 20, 1062}

\* An error value: its dynamic type and, for a native error, its number or code.
NilError == [type |-> "nil", n |-> 0]

Errors ==
    {NilError, [type |-> "*errors.errorString", n |-> 0]}
    \cup {[type |-> "*mysql.MySQLError", n |-> k] : k \in MySQLNumbers}
    \cup {[type |-> "sqlite3.Error", n |-> k] : k \in SqliteCodes}

\* IsDuplicate without 1022 among the MySQL duplicate-key numbers.
IsDuplicate_No1022(drv, e) ==
    IF e.type = "nil" THEN "false"
    ELSE CASE drv = "sqlite3" ->
                LET ok == e.type = "sqlite3.Error"
                    code == IF ok THEN e.n ELSE 0
                IN  IF code = ErrConstraint THEN "true" ELSE "false"
           [] drv = "mysql" ->
                IF e.type # "*mysql.MySQLError" THEN "panic"
                ELSE IF e.n = 1062 \/ e.n = 1169 THEN "true"
                ELSE "false"
           [] OTHER -> "false"

\* The result of IsDuplicate(e) on an engine whose DriverName() is drv:
\* "true", "false", or "panic" when a type assertion without `ok` fails.
\* In the sqlite3 case a failed `e, ok := err.(sqlite3.Error)` is logged and
\* leaves e the zero Error, whose Code is 0.
IsDuplicate(drv, e) ==
    IF e.type = "nil" THEN "false"
    ELSE CASE drv = "sqlite3" ->
                LET ok == e.type = "sqlite3.Error"
                    code == IF ok THEN e.n ELSE 0
                IN  IF code = ErrConstraint THEN "true" ELSE "false"
           [] drv = "mysql" ->
                IF e.type # "*mysql.MySQLError" THEN "panic"
                ELSE IF e.n = 1062 \/ e.n = 1169 \/ e.n = 1022 THEN "true"
                ELSE "false"
           [] OTHER -> "false"

DupInit ==
    /\ cache = InitCache(Absent, Present(1))
    /\ InitPipeline
    /\ listener = "none"
    /\ handlers = 0
    /\ tblDns = <<>>
    /\ tblHttp = <<>>
    /\ driver \in Drivers
    /\ err \in Errors
    /\ ret = "none"

\* A caller classifies the error of a failed statement.
CallIsDuplicate ==
    /\ ret = "none"
    /\ ret' = IsDuplicate(driver, err)
    /\ UNCHANGED <<pipelineVars, driver, err>>

DupNext == CallIsDuplicate

DupSpec == DupInit /\ [][DupNext]_vars

\* ------------------------------------------------------------ fairness
\* The goroutines of RunStoreRoutine and Shutdown keep being scheduled: a
\* receive that stays ready is taken (select picks among its ready cases at
\* random, and the ticker fires once in 1800 s), and a statement that can run
\* does run. An insert either succeeds or ends the process.
Fairness ==
    /\ WF_vars(SelectOutput \/ SelectClosed \/ DnsRecordCase \/ GetErrorCount
                  \/ GoDnsCallBack)
    /\ WF_vars(ShutdownIdle \/ ShutdownWait \/ ShutdownClose)

FairSpec == Init /\ [][ServerNext]_vars /\ Fairness

\* Run serving the `record` handler, whose events reach the store loop as
\* HttpRecords, up to the end of the stream and through Shutdown.
ListenNext ==
    \/ Run
    \/ recordAccept
    \/ record
    \/ SendHttp
    \/ CloseOutput
    \/ SelectOutput
    \/ SelectClosed
    \/ ShutdownServer
    \/ ShutdownIdle
    \/ ShutdownWait
    \/ ShutdownClose

ListenSpec == Init /\ [][ListenNext]_vars

\* The store loop and its callbacks alone, fed DNS events and HTTP events of
\* every owner and callback URL.
HttpNext ==
    \/ SendDns
    \/ SendAnyHttp
    \/ CloseOutput
    \/ SelectOutput
    \/ SelectClosed
    \/ DnsRecordCase
    \/ GetErrorCount
    \/ GoDnsCallBack
    \/ \E u \in UserIds : clientDo(u)
    \/ \E u \in UserIds : dnsCallBackErr(u)
    \/ \E u \in UserIds : dnsCallBackOk(u)
    \/ \E u \in UserIds : dnsCallBackDone(u)

HttpSpec == Init /\ [][HttpNext]_vars


\* ======================================================== the properties
\* The row InsertOne builds from a record of the stream.
RowOf(r) == Row(r.Uid, r.Ctime, r.Domain)

IsDns(r) == r.type = "DnsRecord"

\* A user's FailureCounter: the cached value, an absent key counting as zero.
FailureCounter(u) ==
    IF cache[errorCountKey(u)].exist THEN cache[errorCountKey(u)].v ELSE 0

\* The dnsCallBack goroutines of a user that have started and not yet ended.
InFlight(u) ==
    callbacks[u]["do"] + callbacks[u]["nil"] + callbacks[u]["ok"]
        + callbacks[u]["err"] + callbacks[u]["ret"]

\* The process has ended on logrus.Fatalf: not on the panic of a dnsCallBack
\* goroutine and not on the panic of Shutdown.
Fatal ==
    /\ exited
    /\ spc # "panic"
    /\ \A u \in UserIds : callbacks[u]["panic"] = 0

\* C1 as stated: once RunStoreRoutine has drained the closed stream, the rows it
\* has persisted are one per delivered event, DNS and HTTP alike, in delivery
\* order.
C1_EveryEventPersisted ==
    rpc = "done" => inserted = [i \in 1..Len(output) |-> RowOf(output[i])]

\* C1 amended: once RunStoreRoutine has drained the closed stream, the rows it
\* has persisted are one per delivered DnsRecord, in delivery order, none lost
\* and none twice; it persists nothing for an HttpRecord.
C1_EveryDnsRecordPersisted ==
    rpc = "done" =>
        LET dns == SelectSeq(output, IsDns)
        IN  inserted = [i \in 1..Len(dns) |-> RowOf(dns[i])]

\* The stream is drained after two DNS events of different users arrived.
C1_Witness ==
    /\ rpc = "done"
    /\ Len(inserted) = 2
    /\ inserted[1].Uid # inserted[2].Uid

\* C2: counting from an absent key, after k callbacks of a user in which
\* client.Do returned an error, with no success in between, k below the cap,
\* the user's FailureCounter is k, and from the first failure on the key
\* exists.
C2_CounterCountsFailures ==
    \A u \in UserIds :
        (streak[u] >= 0 /\ streak[u] < DefaultMaxCallbackErrorCount) =>
            /\ FailureCounter(u) = streak[u]
            /\ cache[errorCountKey(u)].exist <=> streak[u] > 0

\* Two callbacks of a user have failed in a row, starting from an absent key.
C2_Witness ==
    \E u \in UserIds : streak[u] = 2 /\ cache[errorCountKey(u)] = Present(2)

\* C3: once a DnsRecord is persisted, RunStoreRoutine goes on to read the
\* user's FailureCounter exactly when the record has a callback URL and a
\* positive Uid, and else is done with the record; having read the counter it
\* goes on to start a dnsCallBack goroutine exactly when the counter it read is
\* absent or below the cap, and else is done with the record; the start adds
\* one goroutine for the record's user, before its client.Do, and one to the
\* WaitGroup; and a dnsCallBack goroutine is started by no other step.
C3_DispatchExactlyWhen ==
    [][/\ (rpc = "insert" /\ rpc' # "insert") =>
            /\ inserted' = Append(inserted, RowOf(rcd))
            /\ rpc' = IF rcd.Callback # "" /\ rcd.Uid > 0 THEN "get" ELSE "select"
            /\ callbacks' = callbacks
            /\ wg' = wg
       /\ (rpc = "get" /\ rpc' # "get") =>
            /\ rpc' = IF \/ ~cache[errorCountKey(rcd.Uid)].exist
                         \/ cache[errorCountKey(rcd.Uid)].v < DefaultMaxCallbackErrorCount
                        THEN "go" ELSE "select"
            /\ callbacks' = callbacks
            /\ wg' = wg
       /\ (rpc = "go" /\ rpc' # "go") =>
            /\ rpc' = "select"
            /\ \A u \in UserIds :
                 InFlight(u)' = InFlight(u) + (IF u = rcd.Uid THEN 1 ELSE 0)
            /\ callbacks'[rcd.Uid]["do"] + callbacks'[rcd.Uid]["nil"]
                 = callbacks[rcd.Uid]["do"] + callbacks[rcd.Uid]["nil"] + 1
            /\ wg' = wg + 1
       /\ (\E u \in UserIds : InFlight(u)' > InFlight(u)) => rpc = "go"]_vars

\* A record with a callback URL of a user whose counter is at the cap has been
\* persisted and no callback is in flight for it.
C3_Witness ==
    /\ rpc = "select"
    /\ taken = 2
    /\ Len(inserted) = 2
    /\ output[2].Callback # ""
    /\ output[2].Uid = 2
    /\ cache[errorCountKey(2)] = Present(DefaultMaxCallbackErrorCount)
    /\ callbacks = NoCallbacks
    /\ wg = 0

\* C4: the counter update of a callback that succeeded leaves the user's
\* FailureCounter absent, whatever it was before.
C4_SuccessClears ==
    [][\A u \in UserIds :
         callbacks'[u]["ok"] < callbacks[u]["ok"] => ~cache'[errorCountKey(u)].exist]_vars

\* A callback has succeeded and is about to update a counter that stands at
\* the cap.
C4_Witness ==
    \E u \in UserIds :
        /\ callbacks[u]["ok"] > 0
        /\ cache[errorCountKey(u)].exist
        /\ cache[errorCountKey(u)].v >= DefaultMaxCallbackErrorCount

\* C9: orm.Close() runs only after close(storeQuit), and Shutdown has stopped
\* the listener before it waits for the handlers and for storeQuit.
C9_ShutdownOrder ==
    /\ ormClosed => storeQuit
    /\ spc \in {"close", "done"} => storeQuit
    /\ spc \in {"drain", "wait", "close", "done"} => listener = "stopped"

\* Shutdown has returned after the stream was drained of two events, with an
\* HTTP interaction stored by the `record` handler.
C9_Witness ==
    /\ spc = "done"
    /\ ormClosed
    /\ taken = 2
    /\ Len(tblHttp) = 1

\* C10 as stated: once the stream is closed and Shutdown has been called,
\* Shutdown returns, unless a failed insert ends the process first.
C10_ShutdownReturns ==
    (outputClosed /\ spc # "idle") ~> (spc = "done" \/ Fatal)

\* Shutdown was called on a closed stream with the store loop at its select
\* and no callback started, read a nil self.s and panicked.
C10_Witness ==
    /\ spc = "panic"
    /\ outputClosed
    /\ rpc = "select"
    /\ ~storeQuit
    /\ callbacks = NoCallbacks

\* The rows of a table, as a set.
Rows(tbl) == {tbl[k] : k \in 1..Len(tbl)}

\* C5: for a user whose profile is cached with interval I, a doClean run whose
\* `now` is T takes T - I for the cutoff, and its two deletes remove from
\* TblDns and from TblHttp exactly that user's rows with ctime < T - I: rows at
\* or after T - I and all rows of other users stay, in their order; and no
\* other step of the retention removes a row.
C5_DeletesOlderThanCutoff ==
    [][/\ \A i \in 1..Len(cleaners) :
            LET id == Head(cleaners[i].ids)
                T == cleaners[i].now.sec
                I == cache[userKey(id)].v
                Stays(r) == r.Uid # id \/ r.Ctime >= T - I
            IN  /\ (cleaners[i].pc = "get" /\ cleaners'[i] # cleaners[i]
                      /\ cache[userKey(id)].exist) =>
                        /\ cleaners'[i].pc = "delDns"
                        /\ cleaners'[i].t.sec = T - I
                        /\ UNCHANGED <<tblDns, tblHttp>>
                /\ (cleaners[i].pc = "delDns" /\ cleaners'[i] # cleaners[i]) =>
                        /\ tblDns' = SelectSeq(tblDns, Stays)
                        /\ tblHttp' = tblHttp
                        /\ cleaners'[i].pc = "delHttp"
                /\ (cleaners[i].pc = "delHttp" /\ cleaners'[i] # cleaners[i]) =>
                        /\ tblHttp' = SelectSeq(tblHttp, Stays)
                        /\ tblDns' = tblDns
       /\ Len(tblDns') < Len(tblDns) =>
            \E i \in 1..Len(cleaners) : cleaners[i].pc = "delDns"
       /\ Len(tblHttp') < Len(tblHttp) =>
            \E i \in 1..Len(cleaners) : cleaners[i].pc = "delHttp"]_vars

\* A run has found the profile of a user who has a DNS row older than the
\* cutoff and one exactly at it, while another user has an HTTP row older
\* than that cutoff; the deletes are still to come.
C5_Witness ==
    \E i \in 1..Len(cleaners) :
        /\ cleaners[i].pc = "delDns"
        /\ LET id == Head(cleaners[i].ids)
               cut == cleaners[i].now.sec - cache[userKey(id)].v
           IN  /\ \E r \in Rows(tblDns) : r.Uid = id /\ r.Ctime < cut
               /\ \E r \in Rows(tblDns) : r.Uid = id /\ r.Ctime = cut
               /\ \E r \in Rows(tblHttp) : r.Uid # id /\ r.Ctime < cut

\* C6: the turn of a doClean run for a user whose profile is not cached deletes
\* nothing and goes on to the next id (or to the end of the run); a run comes
\* to its deletes only for a user whose profile is cached.
C6_MissSkipsUser ==
    /\ [][\A i \in 1..Len(cleaners) :
            (cleaners[i].pc = "get" /\ cleaners'[i] # cleaners[i]
               /\ ~cache[userKey(Head(cleaners[i].ids))].exist) =>
                /\ tblDns' = tblDns
                /\ tblHttp' = tblHttp
                /\ IF Tail(cleaners[i].ids) # <<>>
                     THEN /\ cleaners'[i].pc = "get"
                          /\ cleaners'[i].ids = Tail(cleaners[i].ids)
                     ELSE cleaners'[i].pc = "ret"]_vars
    /\ [](\A i \in 1..Len(cleaners) :
            cleaners[i].pc \in {"delDns", "delHttp"} =>
                cache[userKey(Head(cleaners[i].ids))].exist)

\* A run is about to visit a user without a cached profile who has a DNS row
\* two seconds old, with another user still to visit.
C6_Witness ==
    \E i \in 1..Len(cleaners) :
        /\ cleaners[i].pc = "get"
        /\ Len(cleaners[i].ids) > 1
        /\ ~cache[userKey(Head(cleaners[i].ids))].exist
        /\ \E r \in Rows(tblDns) :
             r.Uid = Head(cleaners[i].ids) /\ r.Ctime + 2 <= cleaners[i].now.sec

\* Whether an error value is the native error type of a backend.
Native(drv, e) ==
    \/ drv = "mysql" /\ e.type = "*mysql.MySQLError"
    \/ drv = "sqlite3" /\ e.type = "sqlite3.Error"

\* C7: IsDuplicate gives true exactly for a MySQL error numbered 1062, 1169 or
\* 1022 on the mysql backend and for a sqlite error with the constraint code
\* on the sqlite backend (driver name sqlite3); it gives false for a nil error,
\* for the other native numbers and codes, and on every other backend.
C7_DuplicateCodes ==
    ret # "none" =>
        LET dup == \/ /\ driver = "mysql"
                      /\ err.type = "*mysql.MySQLError"
                      /\ err.n \in {1062, 1169, 1022}
                   \/ /\ driver = "sqlite3"
                      /\ err.type = "sqlite3.Error"
                      /\ err.n = ErrConstraint
        IN  /\ ret = "true" <=> dup
            /\ (~dup /\ (err = NilError \/ Native(driver, err)
                           \/ driver \notin {"mysql", "sqlite3"})) => ret = "false"

\* IsDuplicate has answered true for the constraint code on sqlite3.
C7_Witness ==
    /\ ret = "true"
    /\ driver = "sqlite3"
    /\ err = [type |-> "sqlite3.Error", n |-> ErrConstraint]

\* C8: for a non-nil error that is not of the backend's native error type,
\* IsDuplicate gives false and does not panic, on every backend.
C8_MismatchIsFalse ==
    (ret # "none" /\ err # NilError /\ ~Native(driver, err)) => ret = "false"

\* IsDuplicate has answered for a MySQL error on sqlite3: a mismatched shape.
C8_Witness ==
    /\ ret # "none"
    /\ driver = "sqlite3"
    /\ err.type = "*mysql.MySQLError"


\* The doClean goroutines that have started and not yet ended.
Cleaning == {i \in 1..Len(cleaners) : cleaners[i].pc # "done"}

RECURSIVE SumInFlight(_)
SumInFlight(S) ==
    IF S = {} THEN 0
    ELSE LET u == CHOOSE x \in S : TRUE
         IN  InFlight(u) + SumInFlight(S \ {u})

\* C11: close(storeQuit) runs once, as RunStoreRoutine leaves its loop for
\* good, and only when the stream has been closed and every record sent
\* before the close has been received; while the stream is open the loop is
\* not left and storeQuit is not closed.
C11_SignalAfterDrain ==
    /\ [](storeQuit <=> rpc = "done")
    /\ [](storeQuit => outputClosed /\ taken = Len(output))
    /\ [][storeQuit => storeQuit' /\ rpc' = "done"]_vars
    /\ [][storeQuit' # storeQuit => rpc = "select" /\ rpc' = "done"]_vars

\* storeQuit is closed after the stream of two records was closed and drained.
C11_Witness ==
    /\ storeQuit
    /\ outputClosed
    /\ Len(output) = 2
    /\ taken = 2

\* C12: the WaitGroup counter is never negative and equals the number of
\* dnsCallBack and doClean goroutines started and not yet ended, whether they
\* end in success or in failure.
C12_TrackerCountsTasks ==
    /\ wg >= 0
    /\ wg = SumInFlight(UserIds) + Cardinality(Cleaning)

\* A callback of user 2 has failed and raised the failure counter to the cap
\* but has not yet returned, while a doClean run is under way: two tasks, and
\* two on the WaitGroup.
C12_Witness ==
    /\ callbacks[2]["ret"] = 1
    /\ cache[errorCountKey(2)] = Present(DefaultMaxCallbackErrorCount)
    /\ SumInFlight(UserIds) = 1
    /\ Cardinality(Cleaning) = 1
    /\ wg = 2

\* C13: a failed insert ends the process where it stands: RunStoreRoutine never
\* gets past the insert without the row stored (no counter read, no task
\* started or registered, no further record received, storeQuit not closed),
\* the process that ended on Fatalf stands at that insert, and once the
\* process has ended nothing of the pipeline changes.
C13_FailedInsertIsFatal ==
    /\ [](Fatal => rpc = "insert" /\ ~storeQuit)
    /\ [][(rpc = "insert" /\ inserted' = inserted) =>
            /\ rpc' = "insert"
            /\ wg' <= wg
            /\ \A u \in UserIds : InFlight(u)' <= InFlight(u)
            /\ taken' = taken
            /\ storeQuit' = storeQuit]_vars
    /\ [][exited => UNCHANGED <<inserted, tblDns, callbacks, cache, wg, taken,
                                storeQuit, rpc>>]_vars

\* The process has ended on the insert of a record that asks for a callback,
\* with a later record waiting on the stream.
C13_Witness ==
    /\ exited
    /\ rcd.Callback # ""
    /\ rcd.Uid = 1
    /\ callbacks = NoCallbacks
    /\ taken < Len(output)

\* RunStoreRoutine is between the receive of a record and the end of its
\* case: at the insert, at the read of the failure counter, or at the start
\* of the callback.
Handling == rpc \in {"insert", "get", "go"}

\* C14 as stated: no step of a doClean run (its Find, a user's lookup or
\* deletes, its end) is taken while RunStoreRoutine is between the receive of
\* a record and the end of its case.
C14_CleanupSerialized ==
    [][Handling => \A i \in 1..Len(cleaners) : cleaners'[i] = cleaners[i]]_vars

\* C14: only the start of a doClean run is serialized with the handling of
\* records: the tick is received by the select of the store loop, so a run is
\* started only between two records; the run itself is a goroutine whose
\* steps may fall inside the handling of a record.
C14_CleanupStartSerialized ==
    [][Len(cleaners') > Len(cleaners) => ~Handling /\ rpc' = "select"]_vars

\* A doClean run has deleted a user's DNS rows and has the HTTP delete still
\* to do while the store loop, past the insert of a record, is about to read
\* the failure counter.
C14_Witness ==
    /\ rpc = "get"
    /\ \E i \in 1..Len(cleaners) : cleaners[i].pc = "delHttp"

\* C15: a tick does not hold up the store loop. The tick's case only
\* registers and starts the doClean goroutine and is back at the select with
\* no statement run on any session; while a doClean run is under way the loop
\* can receive the next record and can insert the one it holds; and each
\* session is used by the goroutine that opened it only, so the session of
\* RunStoreRoutine is used by RunStoreRoutine alone.
C15_TickDoesNotBlock ==
    /\ [][ticks' > ticks =>
            /\ rpc' = "select"
            /\ Len(cleaners') = Len(cleaners) + 1
            /\ cleaners'[Len(cleaners')].pc = "find"
            /\ UNCHANGED <<sessions, tblDns, tblHttp, taken>>]_vars
    /\ []((Cleaning # {} /\ ~exited /\ rpc = "select" /\ taken < Len(output))
            => ENABLED SelectOutput)
    /\ []((Cleaning # {} /\ ~exited /\ rpc = "insert") => ENABLED DnsRecordCase)
    /\ [](\A g \in Goroutines : sessions[g].users \subseteq {g})

\* A doClean run is at the deletes of its last user, on its own session,
\* while the store loop, which has inserted a record on its session, has the
\* next record to receive.
C15_Witness ==
    /\ cleaners # <<>>
    /\ cleaners[1].pc = "delDns"
    /\ Len(cleaners[1].ids) = 1
    /\ sessions[1] = [st |-> "open", users |-> {1}]
    /\ sessions[0] = [st |-> "open", users |-> {0}]
    /\ rpc = "select"
    /\ Len(inserted) = 1
    /\ taken < Len(output)

\* C16: the receive of an HttpRecord is the whole of its handling: the store
\* loop is back at its select holding no record, and no table row, no cache
\* entry, no callback goroutine, no session use and no WaitGroup count has
\* changed, whatever the record's Uid and Callback.
C16_HttpRecordInert ==
    [][(taken' = taken + 1 /\ output[taken + 1].type = "HttpRecord") =>
          /\ rpc' = "select"
          /\ rcd' = NoRecord
          /\ UNCHANGED <<tblDns, tblHttp, inserted, cache, callbacks, wg,
                         sessions>>]_vars

\* After a DNS event whose callback is still in flight, the loop has received
\* an HttpRecord of user 2 that carries a callback URL: still one row, one
\* task.
C16_Witness ==
    /\ taken = 2
    /\ output[2].type = "HttpRecord"
    /\ output[2].Uid = 2
    /\ output[2].Callback # ""
    /\ rpc = "select"
    /\ Len(inserted) = 1
    /\ wg = 1

\* C17: Shutdown neither waits for the WaitGroup nor cancels callbacks: having
\* received from storeQuit it can close the engine and return whatever the
\* WaitGroup counts, no step of Shutdown touches a callback goroutine, the
\* cache or the WaitGroup, and a callback still in flight once Shutdown has
\* returned can take its next step, up to its update of the failure counter
\* and its return.
C17_ShutdownLeavesCallbacks ==
    /\ []((spc = "close" /\ ~exited) => ENABLED ShutdownClose)
    /\ [][spc' # spc => UNCHANGED <<callbacks, cache, wg>>]_vars
    /\ []((spc = "done" /\ ~exited) =>
            \A u \in UserIds :
                /\ callbacks[u]["do"] > 0 => ENABLED clientDo(u)
                /\ callbacks[u]["nil"] > 0 => ENABLED clientDo(u)
                /\ callbacks[u]["err"] > 0 => ENABLED dnsCallBackErr(u)
                /\ callbacks[u]["ok"] > 0 => ENABLED dnsCallBackOk(u)
                /\ callbacks[u]["ret"] > 0 => ENABLED dnsCallBackDone(u))

\* Shutdown has closed the engine and returned while a callback of user 2,
\* whose POST has failed, has yet to raise the failure counter.
C17_Witness ==
    /\ spc = "done"
    /\ ormClosed
    /\ callbacks[2]["err"] = 1
    /\ cache[errorCountKey(2)] = Present(DefaultMaxCallbackErrorCount - 1)
    /\ wg = 1

\* C18 as stated: no user's failure counter ever exceeds the cap.
C18_CounterAtMostCap ==
    \A u \in UserIds : FailureCounter(u) <= DefaultMaxCallbackErrorCount

\* The callbacks of a user that may still change the failure counter: those
\* started with a request and not yet past their update, and the one
\* RunStoreRoutine has decided on (the counter read and found below the cap)
\* and not yet started.
Pending(u) ==
    callbacks[u]["do"] + callbacks[u]["ok"] + callbacks[u]["err"]
        + (IF rpc = "go" /\ rcd.Uid = u THEN 1 ELSE 0)

\* C18: the cap bounds the dispatching, not the counter. Once a user's counter
\* is at or above the cap, the counter plus the number of that user's
\* callbacks decided on or in flight and not yet past their update never
\* grows: the counter passes the cap only through failures of callbacks that
\* were decided on while it was below the cap.
C18_CounterPlusInFlight ==
    [][\A u \in UserIds :
         FailureCounter(u) >= DefaultMaxCallbackErrorCount =>
           FailureCounter(u)' + Pending(u)' <= FailureCounter(u) + Pending(u)]_vars

\* Two callbacks of user 2, both decided on at a counter of cap - 1, have both
\* failed: the counter stands above the cap.
C18_Witness ==
    /\ FailureCounter(2) = DefaultMaxCallbackErrorCount + 1
    /\ Pending(2) = 0

\* C19 as stated: once orm.Close() has run, no doClean run is still before its
\* Find or inside its loop of lookups and deletes, and RunStoreRoutine holds
\* no record to insert.
C19_NoStorageUseAfterClose ==
    ormClosed =>
        /\ \A i \in 1..Len(cleaners) : cleaners[i].pc \in {"ret", "done"}
        /\ rpc # "insert"

\* Shutdown has closed the engine while a doClean run that has read the user
\* ids and found a profile has its deletes still to do.
C19_Witness ==
    /\ ormClosed
    /\ spc = "done"
    /\ \E i \in 1..Len(cleaners) : cleaners[i].pc = "delDns"

\* A user's breaker as the claim has it latched: the failure counter is at or
\* above the cap and none of the user's callbacks is in flight.
LatchedAsStated(u) ==
    /\ FailureCounter(u) >= DefaultMaxCallbackErrorCount
    /\ InFlight(u) = 0

\* C20 as stated: once a user's failure counter is at or above the cap and
\* none of the user's callbacks is in flight, no step starts a callback of
\* that user or changes or clears the user's failure counter.
C20_BreakerLatchesAsStated ==
    [][\A u \in UserIds :
         LatchedAsStated(u) =>
           /\ LatchedAsStated(u)'
           /\ callbacks'[u] = callbacks[u]
           /\ cache'[errorCountKey(u)] = cache[errorCountKey(u)]]_vars

\* A user's breaker is latched: the failure counter is at or above the cap,
\* none of the user's callbacks is in flight, and RunStoreRoutine is not
\* about to start one it decided on when the counter was still below the cap.
Latched(u) ==
    /\ LatchedAsStated(u)
    /\ ~(rpc = "go" /\ rcd.Uid = u)

\* C20: a latched breaker stays latched: from then on no step starts a
\* callback of that user or changes or clears the user's failure counter,
\* whatever records follow on the stream.
C20_BreakerLatches ==
    [][\A u \in UserIds :
         Latched(u) =>
           /\ Latched(u)'
           /\ callbacks'[u] = callbacks[u]
           /\ cache'[errorCountKey(u)] = cache[errorCountKey(u)]]_vars

\* User 2's breaker latched on the failure of the first record's callback;
\* the second record of user 2, which asks for a callback, has been inserted
\* and the stream has ended: the counter still stands at the cap and no
\* callback was started.
C20_Witness ==
    /\ Latched(2)
    /\ storeQuit
    /\ Len(inserted) = 2
    /\ output[1].Uid = 2
    /\ output[2].Uid = 2
    /\ output[2].Callback # ""
    /\ FailureCounter(2) = DefaultMaxCallbackErrorCount

=============================================================================
